---- MODULE Spec2Model ----
(***************************************************************************)
(* Model of the Ppocr supervisor of doraemonkeys/paddleocr: one worker     *)
(* process behind a mutex (ppLock), an exit-waiter goroutine per launched  *)
(* worker, a restart timer goroutine, and concurrent callers of OcrFile,   *)
(* Ocr and Close.                                                          *)
(***************************************************************************)
EXTENDS Integers, Sequences, FiniteSets, TLC

(* ---------------------------------------------------------------- bounds *)
NumCallers == 2
MaxCalls == 3
MaxTicks == 2

Callers == 1..NumCallers
(* every initPpocr call allocates one exec.Cmd: NewPpocr plus one per tick *)
MaxCmd == MaxTicks + 1
CmdIds == 1..MaxCmd

(* ----------------------------------------------------------------- state *)
VARIABLES
  ppLock,          \* holder of p.ppLock
  restartExitChan, \* "open" | "closed"
  internalErr,     \* p.internalErr: "nil" or an error
  cmd,             \* p.cmd: id of the exec.Cmd (0 = nil)
  cmdStdin,        \* p.cmdStdin: id of the Cmd whose stdin pipe it is (0 = nil)
  cmdStdout,       \* p.cmdStdout
  nCmd,            \* number of exec.Cmd values created so far
  proc,            \* per Cmd: state of its process
  waiter,          \* per Cmd: position of its exit-waiter goroutine
  npc,             \* position of NewPpocr ("noexe": returned nil and the error)
  tpc,             \* position of the restartTimer goroutine
  ticks,           \* ticks of the ticker taken so far
  initRet,         \* the error initPpocr is about to return
  hsOutcome,       \* how the read loop of the running initPpocr ended
  pc,              \* per caller: position inside its current call
  calls,           \* calls started so far
  result,          \* per caller: what its last call returned
  errAtLock,       \* per caller: internalErr was set when the current call got the lock
  queued,          \* per caller: the current call has waited for the lock during a restart
  afterClose,      \* per caller: the current call began after Close had returned
  lastInit,        \* outcome of the latest restart's initPpocr
  closeReturned,   \* a Close that closed restartExitChan has returned
  chanCloses,      \* executions of close(p.restartExitChan)
  crash,           \* history, "untracked" but in SpecCrash; "exited": a worker
                   \* has exited with an error between requests; "recorded":
                   \* its exit-waiter has set the error; "none" before that and
                   \* again once a restart has succeeded
  exePath,         \* what the exePath argument of NewPpocr names
  hsOut,           \* the bytes the worker writes to its stdout while it starts
  hsStart,         \* start of the read loop of initPpocr: bytes in buf so far
  hsRes,           \* how that read loop ended ("reading" while it runs)
  ocrPc,           \* position of the one caller of ocr(): "idle" | "reading"
  nReq,            \* requests written to the worker's stdin so far
  nRead,           \* bytes the calls of ocr() have read from the worker's stdout
  content,         \* the buffer content of the running, else of the latest, ocr()
  ocrStart,        \* start of the read loop of ocr(): bytes in content so far
  rawData,         \* the argument of ParseResult
  parsed,          \* <<>>, then what ParseResult did with rawData
  args,            \* the OcrArgs value CmdString is called on
  cmdString        \* <<>>, then what CmdString returned

vars == <<ppLock, restartExitChan, internalErr, cmd, cmdStdin, cmdStdout, nCmd,
          proc, waiter, npc, tpc, ticks, initRet, hsOutcome, pc, calls, result,
          errAtLock, queued, afterClose, lastInit, closeReturned, chanCloses,
          exePath, hsOut, hsStart, hsRes, ocrPc, nReq, nRead, content,
          ocrStart, crash,
          rawData, parsed, args, cmdString>>

handle == <<cmd, cmdStdin, cmdStdout, nCmd>>
timerVars == <<tpc, ticks, lastInit, hsOutcome>>
callerVars == <<pc, calls, result, errAtLock, queued, afterClose>>
histVars == <<chanCloses, crash>>
(* arguments and data, which no step of the supervisor changes *)
ocrVars == <<ocrPc, nReq, nRead, content, ocrStart>>
parseVars == <<rawData, parsed>>
argsVars == <<args, cmdString>>
dataVars == <<exePath, hsOut, hsStart, hsRes, ocrVars, parseVars, argsVars>>
(* the Ppocr value, its goroutines and its callers *)
ppocrVars == <<ppLock, restartExitChan, internalErr, handle, proc, waiter, npc,
               timerVars, initRet, callerVars, closeReturned, histVars>>

NoOne == [kind |-> "none", id |-> 0]
NewTask == [kind |-> "new", id |-> 0]
TimerTask == [kind |-> "timer", id |-> 0]
CallerTask(c) == [kind |-> "caller", id |-> c]

ErrClosed == "OCR process has been closed"
ErrInit == "OCR init failed"
ErrExit == "exit error"
ErrIO == "io error"

(* what a path can name: nothing, nothing because it is "", a directory, a file *)
PathKinds == {"missing", "empty", "dir", "file"}

(* the state after the composite literal of NewPpocr, with the history of exits
   followed (history = "none") or not (history = "untracked") *)
InitPpocrWith(history) ==
  /\ ppLock = NoOne
  /\ restartExitChan = "open"
  /\ internalErr = "nil"
  /\ cmd = 0 /\ cmdStdin = 0 /\ cmdStdout = 0 /\ nCmd = 0
  /\ proc = [w \in CmdIds |-> "unborn"]
  /\ waiter = [w \in CmdIds |-> "none"]
  /\ npc = "stat"
  /\ tpc = "none"
  /\ ticks = 0
  /\ initRet = "nil"
  /\ hsOutcome = "none"
  /\ pc = [c \in Callers |-> "idle"]
  /\ calls = 0
  /\ result = [c \in Callers |-> "none"]
  /\ errAtLock = [c \in Callers |-> FALSE]
  /\ queued = [c \in Callers |-> FALSE]
  /\ afterClose = [c \in Callers |-> FALSE]
  /\ lastInit = "none"
  /\ closeReturned = FALSE
  /\ chanCloses = 0
  /\ crash = history

(* no call of ocr() yet *)
InitOcr == ocrPc = "idle" /\ nReq = 0 /\ nRead = 0 /\ content = <<>> /\ ocrStart = 0

(* ParseResult is not called *)
NoParse == rawData = <<>> /\ parsed = <<>>

(* CmdString is not called *)
NoArgs == args = <<>> /\ cmdString = <<>>

InitPpocr == InitPpocrWith("untracked")

Init ==
  /\ InitPpocr
  /\ exePath \in PathKinds
  /\ hsOut = <<>> /\ hsStart = 0 /\ hsRes = "none"
  /\ InitOcr
  /\ NoParse
  /\ NoArgs


(* ------------------------------------------------------------ ppLock *)
(* sync.Mutex: Lock blocks until the mutex is free *)
Lock(t) == ppLock = NoOne /\ ppLock' = t
Unlock == ppLock' = NoOne

(* positions inside ocr() *)
InOcr == {"w1", "w2", "read"}

(* ------------------------------------------------- the worker process *)
(* the worker exits or crashes on its own *)
WorkerExit(w) ==
  /\ proc[w] = "running"
  /\ \E how \in {"exited0", "exitedErr"} :
       /\ proc' = [proc EXCEPT ![w] = how]
       /\ crash' = IF /\ how = "exitedErr"
                      /\ crash = "none"
                      /\ \A c \in Callers : pc[c] \notin InOcr
                     THEN "exited" ELSE crash
  /\ UNCHANGED <<ppLock, restartExitChan, internalErr, handle, waiter, npc,
                 timerVars, initRet, callerVars, closeReturned, chanCloses,
                 dataVars>>

(* ------------------------------------- the exit-waiter goroutine of w *)
(* go func() { p.internalErr = nil *)
WaiterStart(w) ==
  /\ waiter[w] = "start"
  /\ internalErr' = "nil"
  /\ waiter' = [waiter EXCEPT ![w] = "wait"]
  /\ UNCHANGED <<ppLock, restartExitChan, handle, proc, npc, timerVars, initRet,
                 callerVars, closeReturned, histVars, dataVars>>

(* err := p.cmd.Wait(): returns when the process has exited; nil on exit status 0 *)
WaiterWait(w) ==
  /\ waiter[w] = "wait"
  /\ proc[w] \in {"exited0", "exitedErr", "killed"}
  /\ waiter' = [waiter EXCEPT ![w] = IF proc[w] = "exited0" THEN "send" ELSE "set"]
  /\ UNCHANGED <<ppLock, restartExitChan, internalErr, handle, proc, npc,
                 timerVars, initRet, callerVars, closeReturned, histVars,
                 dataVars>>

(* WaiterSet with a fault: the goroutine returns once it has recorded the error *)
WaiterSetNoSend(w) ==
  /\ waiter[w] = "set"
  /\ internalErr' = ErrExit
  /\ waiter' = [waiter EXCEPT ![w] = "done"]
  /\ UNCHANGED <<ppLock, restartExitChan, handle, proc, npc, timerVars, initRet,
                 callerVars, closeReturned, histVars, dataVars>>

(* if err != nil { p.internalErr = err } *)
WaiterSet(w) ==
  /\ waiter[w] = "set"
  /\ internalErr' = ErrExit
  /\ waiter' = [waiter EXCEPT ![w] = "send"]
  /\ crash' = IF crash = "exited" /\ proc[w] = "exitedErr" THEN "recorded"
                                                           ELSE crash
  /\ UNCHANGED <<ppLock, restartExitChan, handle, proc, npc, timerVars, initRet,
                 callerVars, closeReturned, chanCloses, dataVars>>

(* ------------------------------------------------------------ close() *)
(* a waiter is blocked in p.runGoroutineExitedChan <- struct{}{} *)
ExitEventReady == \E w \in CmdIds : waiter[w] = "send"

(* <-p.runGoroutineExitedChan: the rendezvous with one blocked waiter, whose
   goroutine then ends; how its process ended is of no more use *)
closeReceive ==
  \E w \in CmdIds :
    /\ waiter[w] = "send"
    /\ waiter' = [waiter EXCEPT ![w] = "done"]
    /\ proc' = [proc EXCEPT ![w] = "reaped"]

(* the body of close() after the select: p.cmdStdin.Close(), p.cmd.Process.Kill().
   Kill ends a running process; on an exited process it returns an error and on a
   Cmd that never started it panics (recovered): nothing changes in both cases. *)
closeKill ==
  proc' = IF cmd # 0 /\ proc[cmd] = "running"
            THEN [proc EXCEPT ![cmd] = "killed"]
            ELSE proc

(* -------------------------------------------------------- initPpocr() *)
SpawnOutcomes == {"pipeFail", "startFail", "started"}

(* initSpawn with a fault: p.cmdStdin and p.cmdStdout are not replaced *)
initSpawnKeepsPipes(outcome) ==
  LET id == nCmd + 1 IN
  /\ nCmd' = id
  /\ cmd' = id
  /\ UNCHANGED <<cmdStdin, cmdStdout>>
  /\ proc' = [proc EXCEPT ![id] = IF outcome = "started" THEN "running" ELSE "unstarted"]
  /\ waiter' = [waiter EXCEPT ![id] = IF outcome = "started" THEN "start" ELSE "none"]

(* exec.Command, StdinPipe, StdoutPipe, cmd.Start and the go statement *)
initSpawn(outcome) ==
  LET id == nCmd + 1 IN
  /\ nCmd' = id
  /\ cmd' = id
  /\ IF outcome = "pipeFail"
       THEN UNCHANGED <<cmdStdin, cmdStdout>>
       ELSE cmdStdin' = id /\ cmdStdout' = id
  /\ proc' = [proc EXCEPT ![id] = IF outcome = "started" THEN "running" ELSE "unstarted"]
  /\ waiter' = [waiter EXCEPT ![id] = IF outcome = "started" THEN "start" ELSE "none"]

HandshakeOutcomes == {"marker", "eof", "tooLong"}

(* the read loop: the stream can only end when the process is gone *)
handshakePossible(o) == o = "eof" => proc[cmd] # "running"

(* what initPpocr returns after the read loop: p.internalErr when the marker was
   seen, the init error otherwise *)
handshakeRet(o) == IF o = "marker" THEN internalErr ELSE ErrInit

(* -------------------------------------------------------- fileIsExist *)
(* os.Stat(path): the error, and IsDir() of the FileInfo *)
Stat(path) ==
  [err |-> IF path \in {"missing", "empty"} THEN "ENOENT" ELSE "nil",
   isDir |-> path = "dir"]

(* os.IsExist(err) *)
IsExist(err) == err \in {"EEXIST", "ENOTEMPTY"}

(* fileIsExist with a fault: a directory passes *)
fileIsExistNoDirTest(path) ==
  IF Stat(path).err # "nil" THEN IsExist(Stat(path).err) ELSE TRUE

fileIsExist(path) ==
  IF Stat(path).err # "nil"
    THEN IsExist(Stat(path).err)
    ELSE IF Stat(path).isDir THEN FALSE ELSE TRUE

(* --------------------------------------------------------- NewPpocr() *)
(* if !fileIsExist(exePath) { return nil, error } *)
NewStat ==
  /\ npc = "stat"
  /\ npc' = IF fileIsExist(exePath) THEN "lock" ELSE "noexe"
  /\ UNCHANGED <<ppLock, restartExitChan, internalErr, handle, proc, waiter,
                 timerVars, initRet, callerVars, closeReturned, histVars,
                 dataVars>>

(* p.ppLock.Lock() *)
NewLock ==
  /\ npc = "lock"
  /\ Lock(NewTask)
  /\ npc' = "init"
  /\ UNCHANGED <<restartExitChan, internalErr, handle, proc, waiter, timerVars,
                 initRet, callerVars, closeReturned, histVars, dataVars>>

(* initPpocr up to cmd.Start: a failure makes initPpocr return, and NewPpocr
   goes on to p.close() *)
NewInitSpawn ==
  /\ npc = "init"
  /\ \E o \in SpawnOutcomes :
       /\ initSpawn(o)
       /\ IF o = "started"
            THEN npc' = "handshake"
            ELSE npc' = "close"
  /\ UNCHANGED <<ppLock, restartExitChan, internalErr, timerVars, initRet,
                 callerVars, closeReturned, histVars, dataVars>>

(* the handshake; then err == nil: go p.restartTimer() and return (the deferred
   Unlock), else p.close() *)
NewHandshake ==
  /\ npc = "handshake"
  /\ \E o \in HandshakeOutcomes :
       /\ handshakePossible(o)
       /\ IF handshakeRet(o) = "nil"
            THEN npc' = "ok" /\ tpc' = "select" /\ Unlock /\ UNCHANGED hsOutcome
            ELSE npc' = "close" /\ hsOutcome' = o /\ UNCHANGED <<tpc, ppLock>>
  /\ UNCHANGED <<restartExitChan, internalErr, handle, proc, waiter, ticks,
                 lastInit, initRet, callerVars, closeReturned,
                 histVars, dataVars>>

(* close(): select { case <-p.runGoroutineExitedChan: return nil; default: } *)
NewCloseSelect ==
  /\ npc = "close"
  /\ IF ExitEventReady
       THEN closeReceive /\ npc' = "err" /\ Unlock /\ hsOutcome' = "none"
       ELSE npc' = "close_body" /\ UNCHANGED <<waiter, proc, ppLock, hsOutcome>>
  /\ UNCHANGED <<restartExitChan, internalErr, handle, tpc, ticks, lastInit,
                 initRet, callerVars, closeReturned, histVars, dataVars>>

NewCloseBody ==
  /\ npc = "close_body"
  /\ closeKill
  /\ npc' = "close_recv"
  /\ UNCHANGED <<ppLock, restartExitChan, internalErr, handle, waiter, timerVars,
                 initRet, callerVars, closeReturned, histVars, dataVars>>

(* the deferred <-p.runGoroutineExitedChan, then NewPpocr returns p, err *)
NewCloseRecv ==
  /\ npc = "close_recv"
  /\ closeReceive
  /\ npc' = "err"
  /\ hsOutcome' = "none"
  /\ Unlock
  /\ UNCHANGED <<restartExitChan, internalErr, handle, tpc, ticks, lastInit,
                 initRet, callerVars, closeReturned, histVars, dataVars>>

(* ------------------------------------------------------ restartTimer() *)
(* positions at which a call waits for p.ppLock *)
LockWait == {"f_lock", "o_lock", "c_lock"}

InCycle == tpc \in {"close", "close_body", "close_recv", "init", "handshake", "store"}

(* case <-ticker.C *)
TimerTick ==
  /\ tpc = "select"
  /\ ticks < MaxTicks
  /\ ticks' = ticks + 1
  /\ tpc' = "lock"
  /\ UNCHANGED <<ppLock, restartExitChan, internalErr, handle, proc, waiter, npc,
                 lastInit, hsOutcome, initRet, callerVars, closeReturned,
                 histVars, dataVars>>

(* case <-p.restartExitChan: return *)
TimerExit ==
  /\ tpc = "select"
  /\ restartExitChan = "closed"
  /\ tpc' = "exited"
  /\ UNCHANGED <<ppLock, restartExitChan, internalErr, handle, proc, waiter, npc,
                 ticks, lastInit, hsOutcome, initRet, callerVars,
                 closeReturned, histVars, dataVars>>

(* TimerLock with a fault: the restart does not wait for the mutex *)
TimerLockNoMutex ==
  /\ tpc = "lock"
  /\ ppLock' = TimerTask
  /\ tpc' = "close"
  /\ queued' = [c \in Callers |-> queued[c] \/ pc[c] \in LockWait]
  /\ UNCHANGED <<restartExitChan, internalErr, handle, proc, waiter, npc, ticks,
                 lastInit, hsOutcome, initRet, pc, calls, result,
                 errAtLock, afterClose, closeReturned, histVars, dataVars>>

(* TimerLock with a fault: the restart goes on to initPpocr without p.close() *)
TimerLockNoClose ==
  /\ tpc = "lock"
  /\ Lock(TimerTask)
  /\ tpc' = "init"
  /\ queued' = [c \in Callers |-> queued[c] \/ pc[c] \in LockWait]
  /\ UNCHANGED <<restartExitChan, internalErr, handle, proc, waiter, npc, ticks,
                 lastInit, hsOutcome, initRet, pc, calls, result, errAtLock,
                 afterClose, closeReturned, histVars, dataVars>>

(* p.ppLock.Lock() *)
TimerLock ==
  /\ tpc = "lock"
  /\ Lock(TimerTask)
  /\ tpc' = "close"
  /\ queued' = [c \in Callers |-> queued[c] \/ pc[c] \in LockWait]
  /\ UNCHANGED <<restartExitChan, internalErr, handle, proc, waiter, npc, ticks,
                 lastInit, hsOutcome, initRet, pc, calls, result,
                 errAtLock, afterClose, closeReturned, histVars, dataVars>>

(* _ = p.close() *)
TimerCloseSelect ==
  /\ tpc = "close"
  /\ IF ExitEventReady
       THEN closeReceive /\ tpc' = "init"
       ELSE tpc' = "close_body" /\ UNCHANGED <<waiter, proc>>
  /\ UNCHANGED <<ppLock, restartExitChan, internalErr, handle, npc, ticks, lastInit,
                 hsOutcome, initRet, callerVars, closeReturned, histVars,
                 dataVars>>

TimerCloseBody ==
  /\ tpc = "close_body"
  /\ closeKill
  /\ tpc' = "close_recv"
  /\ UNCHANGED <<ppLock, restartExitChan, internalErr, handle, waiter, npc, ticks,
                 lastInit, hsOutcome, initRet, callerVars, closeReturned,
                 histVars, dataVars>>

TimerCloseRecv ==
  /\ tpc = "close_recv"
  /\ closeReceive
  /\ tpc' = "init"
  /\ UNCHANGED <<ppLock, restartExitChan, internalErr, handle, npc, ticks, lastInit,
                 hsOutcome, initRet, callerVars, closeReturned, histVars,
                 dataVars>>

(* p.initPpocr(p.exePath, p.args) *)
TimerInitSpawn ==
  /\ tpc = "init"
  /\ \E o \in SpawnOutcomes :
       /\ initSpawn(o)
       /\ IF o = "started"
            THEN tpc' = "handshake" /\ UNCHANGED initRet
            ELSE tpc' = "store" /\ initRet' = ErrInit
  /\ UNCHANGED <<ppLock, restartExitChan, internalErr, npc, ticks, lastInit,
                 hsOutcome, callerVars, closeReturned, histVars, dataVars>>

TimerHandshake ==
  /\ tpc = "handshake"
  /\ \E o \in HandshakeOutcomes :
       /\ handshakePossible(o)
       /\ initRet' = handshakeRet(o)
       /\ hsOutcome' = o
  /\ tpc' = "store"
  /\ UNCHANGED <<ppLock, restartExitChan, internalErr, handle, proc, waiter, npc,
                 ticks, lastInit, callerVars, closeReturned, histVars,
                 dataVars>>

(* p.internalErr = <the result of initPpocr>; p.ppLock.Unlock() *)
TimerStore ==
  /\ tpc = "store"
  /\ internalErr' = initRet
  /\ initRet' = "nil"
  /\ hsOutcome' = "none"
  /\ lastInit' = IF initRet = "nil" THEN "ok" ELSE "failed"
  /\ crash' = IF initRet = "nil" /\ crash # "untracked" THEN "none" ELSE crash
  /\ Unlock
  /\ tpc' = "select"
  /\ UNCHANGED <<restartExitChan, handle, proc, waiter, npc, ticks, callerVars,
                 closeReturned, chanCloses, dataVars>>

(* ------------------------------------------------------------ callers *)
Created == npc = "ok"
Returned == npc \in {"ok", "err"}

(* a write to, or a read from, the pipe of Cmd w gets through while its process runs *)
StreamAlive(w) == w # 0 /\ proc[w] = "running"

(* a call starts and goes to wait for the lock at position at *)
begin(c, at) ==
  /\ pc[c] = "idle"
  /\ calls < MaxCalls
  /\ calls' = calls + 1
  /\ pc' = [pc EXCEPT ![c] = at]
  /\ result' = [result EXCEPT ![c] = "none"]
  /\ queued' = [queued EXCEPT ![c] = InCycle]
  /\ afterClose' = [afterClose EXCEPT ![c] = closeReturned]
  /\ UNCHANGED errAtLock

(* p.ppLock.Lock() of a call, which goes on at position to *)
acquire(c, to) ==
  /\ Lock(CallerTask(c))
  /\ pc' = [pc EXCEPT ![c] = to]
  /\ errAtLock' = [errAtLock EXCEPT ![c] = internalErr # "nil"]
  /\ UNCHANGED <<calls, result, queued, afterClose>>

(* a call goes on to position to, keeping the lock *)
goto(c, to) ==
  /\ pc' = [pc EXCEPT ![c] = to]
  /\ UNCHANGED <<ppLock, calls, result, errAtLock, queued, afterClose>>

(* return r with the deferred p.ppLock.Unlock() *)
return(c, r) ==
  /\ result' = [result EXCEPT ![c] = r]
  /\ pc' = [pc EXCEPT ![c] = "idle"]
  /\ errAtLock' = [errAtLock EXCEPT ![c] = FALSE]
  /\ queued' = [queued EXCEPT ![c] = FALSE]
  /\ afterClose' = [afterClose EXCEPT ![c] = FALSE]
  /\ Unlock
  /\ UNCHANGED calls

(* OcrFile: json.Marshal, then the call queues for p.ppLock *)
OcrFileBegin(c) ==
  /\ Created
  /\ begin(c, "f_lock")
  /\ UNCHANGED <<ppLock, restartExitChan, internalErr, handle, proc, waiter, npc,
                 timerVars, initRet, closeReturned, histVars, dataVars>>

(* p.ppLock.Lock() *)
OcrFileLock(c) ==
  /\ pc[c] = "f_lock"
  /\ acquire(c, "f_check")
  /\ UNCHANGED <<restartExitChan, internalErr, handle, proc, waiter, npc,
                 timerVars, initRet, closeReturned, histVars, dataVars>>

(* if p.internalErr != nil { return nil, p.internalErr }; return p.ocr(dataJson) *)
OcrFileCheck(c) ==
  /\ pc[c] = "f_check"
  /\ IF internalErr # "nil" THEN return(c, internalErr) ELSE goto(c, "w1")
  /\ UNCHANGED <<restartExitChan, internalErr, handle, proc, waiter, npc,
                 timerVars, initRet, closeReturned, histVars, dataVars>>

(* Ocr: if p.internalErr != nil { return nil, p.internalErr }, read without the
   lock; then json.Marshal and the call queues for p.ppLock *)
OcrBegin(c) ==
  /\ Created
  /\ pc[c] = "idle"
  /\ calls < MaxCalls
  /\ calls' = calls + 1
  /\ IF internalErr # "nil"
       THEN /\ result' = [result EXCEPT ![c] = internalErr]
            /\ UNCHANGED <<pc, queued, afterClose>>
       ELSE /\ result' = [result EXCEPT ![c] = "none"]
            /\ pc' = [pc EXCEPT ![c] = "o_lock"]
            /\ queued' = [queued EXCEPT ![c] = InCycle]
            /\ afterClose' = [afterClose EXCEPT ![c] = closeReturned]
  /\ UNCHANGED <<ppLock, restartExitChan, internalErr, handle, proc, waiter, npc,
                 timerVars, initRet, errAtLock, closeReturned, histVars,
                 dataVars>>

(* OcrLock with a fault: Ocr enters ocr() without waiting for the mutex *)
OcrLockNoMutex(c) ==
  /\ pc[c] = "o_lock"
  /\ ppLock' = CallerTask(c)
  /\ pc' = [pc EXCEPT ![c] = "w1"]
  /\ errAtLock' = [errAtLock EXCEPT ![c] = internalErr # "nil"]
  /\ UNCHANGED <<restartExitChan, internalErr, handle, proc, waiter, npc,
                 timerVars, initRet, calls, result, queued, afterClose,
                 closeReturned, histVars, dataVars>>

(* p.ppLock.Lock(); return p.ocr(dataJson) *)
OcrLock(c) ==
  /\ pc[c] = "o_lock"
  /\ acquire(c, "w1")
  /\ UNCHANGED <<restartExitChan, internalErr, handle, proc, waiter, npc,
                 timerVars, initRet, closeReturned, histVars, dataVars>>

(* ocr(): p.cmdStdin.Write(dataJson); an error returns *)
OcrWriteJson(c) ==
  /\ pc[c] = "w1"
  /\ IF StreamAlive(cmdStdin) THEN goto(c, "w2") ELSE return(c, ErrIO)
  /\ UNCHANGED <<restartExitChan, internalErr, handle, proc, waiter, npc,
                 timerVars, initRet, closeReturned, histVars, dataVars>>

(* ocr(): p.cmdStdin.Write([]byte("\n")) *)
OcrWriteNewline(c) ==
  /\ pc[c] = "w2"
  /\ IF StreamAlive(cmdStdin) THEN goto(c, "read") ELSE return(c, ErrIO)
  /\ UNCHANGED <<restartExitChan, internalErr, handle, proc, waiter, npc,
                 timerVars, initRet, closeReturned, histVars, dataVars>>

(* OcrRead with a fault: a read error is also kept as the error of the Ppocr *)
OcrReadKeepsError(c) ==
  /\ pc[c] = "read"
  /\ return(c, IF StreamAlive(cmdStdout) THEN "ok" ELSE ErrIO)
  /\ internalErr' = IF StreamAlive(cmdStdout) THEN internalErr ELSE ErrIO
  /\ UNCHANGED <<restartExitChan, handle, proc, waiter, npc,
                 timerVars, initRet, closeReturned, histVars, dataVars>>

(* ocr(): the read loop up to the newline, or a read error (EOF) *)
OcrRead(c) ==
  /\ pc[c] = "read"
  /\ return(c, IF StreamAlive(cmdStdout) THEN "ok" ELSE ErrIO)
  /\ UNCHANGED <<restartExitChan, internalErr, handle, proc, waiter, npc,
                 timerVars, initRet, closeReturned, histVars, dataVars>>

(* Close *)
CloseBegin(c) ==
  /\ Returned
  /\ begin(c, "c_lock")
  /\ UNCHANGED <<ppLock, restartExitChan, internalErr, handle, proc, waiter, npc,
                 timerVars, initRet, closeReturned, histVars, dataVars>>

(* p.ppLock.Lock() *)
CloseLock(c) ==
  /\ pc[c] = "c_lock"
  /\ acquire(c, "c_select")
  /\ UNCHANGED <<restartExitChan, internalErr, handle, proc, waiter, npc,
                 timerVars, initRet, closeReturned, histVars, dataVars>>

(* CloseSelect with a fault: close(p.restartExitChan) without the select that guards it *)
CloseSelectNoGuard(c) ==
  /\ pc[c] = "c_select"
  /\ restartExitChan' = "closed"
  /\ chanCloses' = chanCloses + 1
  /\ internalErr' = ErrClosed
  /\ goto(c, "c_close")
  /\ UNCHANGED <<handle, proc, waiter, npc, timerVars, initRet, closeReturned,
                 crash, dataVars>>

(* select { case <-p.restartExitChan: return error; default: close(p.restartExitChan) }
   p.internalErr = fmt.Errorf("OCR process has been closed") *)
CloseSelect(c) ==
  /\ pc[c] = "c_select"
  /\ IF restartExitChan = "closed"
       THEN /\ return(c, ErrClosed)
            /\ UNCHANGED <<restartExitChan, internalErr, chanCloses>>
       ELSE /\ restartExitChan' = "closed"
            /\ chanCloses' = chanCloses + 1
            /\ internalErr' = ErrClosed
            /\ goto(c, "c_close")
  /\ UNCHANGED <<handle, proc, waiter, npc, timerVars, initRet, closeReturned,
                 crash, dataVars>>

(* return p.close(): the first select of close() *)
CloseCloseSelect(c) ==
  /\ pc[c] = "c_close"
  /\ IF ExitEventReady
       THEN /\ closeReceive
            /\ return(c, "nil")
            /\ closeReturned' = TRUE
       ELSE /\ goto(c, "c_body")
            /\ UNCHANGED <<waiter, proc, closeReturned>>
  /\ UNCHANGED <<restartExitChan, internalErr, handle, npc, timerVars, initRet,
                 histVars, dataVars>>

CloseCloseBody(c) ==
  /\ pc[c] = "c_body"
  /\ closeKill
  /\ goto(c, "c_recv")
  /\ UNCHANGED <<restartExitChan, internalErr, handle, waiter, npc, timerVars,
                 initRet, closeReturned, histVars, dataVars>>

(* the deferred <-p.runGoroutineExitedChan, then Close returns *)
CloseCloseRecv(c) ==
  /\ pc[c] = "c_recv"
  /\ closeReceive
  /\ return(c, "nil")
  /\ closeReturned' = TRUE
  /\ UNCHANGED <<restartExitChan, internalErr, handle, npc, timerVars, initRet,
                 histVars, dataVars>>

(* ------------------------------------ the read loop of initPpocr *)
(* len(buf), scaled down from 4096 *)
BufLen == 4

(* the bytes a worker can write, and the ready marker, scaled down from
   "OCR init completed." to two bytes *)
Bytes == {"o", "k", "x"}
ReadyMarker == <<"o", "k">>

(* longest startup output considered: one byte more than buf holds *)
MaxOut == BufLen + 1

SeqsUpTo(S, n) == UNION {[1..k -> S] : k \in 0..n}

Min(a, b) == IF a < b THEN a ELSE b

(* bytes.Contains(b, sub) *)
Contains(b, sub) ==
  \E i \in 0..(Len(b) - Len(sub)) :
    \A j \in 1..Len(sub) : b[i + j] = sub[j]

(* buf[:n] when buf holds the first bytes of out *)
Prefix(out, n) == SubSeq(out, 1, Min(n, Len(out)))

(* one round of the loop, after rc.Read(buf[start:]) has returned n bytes:
   start += n, then the test for "output too long", then the test for the marker *)
hsAfterRead(out, start, n) ==
  IF start + n >= BufLen THEN "tooLong"
  ELSE IF Contains(Prefix(out, start + n), ReadyMarker) THEN "marker"
  ELSE "reading"

(* n, err := rc.Read(buf[start:]): an error when the stream has ended, else any
   number of the bytes not yet read, at least one and at most the room in buf *)
HsRead ==
  /\ hsRes = "reading"
  /\ IF hsStart = Len(hsOut)
       THEN hsRes' = "eof" /\ UNCHANGED hsStart
       ELSE \E n \in 1..Min(Len(hsOut) - hsStart, BufLen - hsStart) :
              /\ hsStart' = hsStart + n
              /\ hsRes' = hsAfterRead(hsOut, hsStart, n)
  /\ UNCHANGED <<ppocrVars, exePath, hsOut, ocrVars, parseVars,
                 argsVars>>

InitHandshake ==
  /\ InitPpocr
  /\ exePath = "file"
  /\ hsOut \in SeqsUpTo(Bytes, MaxOut)
  /\ hsStart = 0
  /\ hsRes = "reading"
  /\ InitOcr
  /\ NoParse
  /\ NoArgs

SpecHandshake == InitHandshake /\ [][HsRead]_vars

(* ------------------------------------------- the read loop of ocr() *)
(* requests of one caller *)
MaxReq == 5

(* what a worker writes while it starts: the marker, with or without a byte
   before it and with or without the end of its line *)
Banners ==
  {pre \o ReadyMarker \o post : pre \in {<<>>, <<"x">>}, post \in {<<>>, <<"\n">>}}

(* the line the worker writes in reply to its i-th request: lines of four, of
   two and of three bytes in turn *)
Response(i) ==
  IF i % 3 = 1 THEN <<"{", ToString(i), "}", "\n">>
  ELSE IF i % 3 = 2 THEN <<ToString(i), "\n">>
  ELSE <<"{", ToString(i), "\n">>

(* len of the buffer make([]byte, 1024*10) of ocr(), and of every extension of
   it, scaled down to the length of the lines above *)
ContentLen == 3

(* make([]byte, n): n zero bytes *)
make(n) == [i \in 1..n |-> "NUL"]

(* content = append(content, make([]byte, 1024*10)...) with the buffer dropped
   instead of copied, a fault *)
appendFresh(c) == make(Len(c) + ContentLen)

(* content = append(content, make([]byte, 1024*10)...) *)
append(c) == c \o make(ContentLen)

(* the value ocr() returns: content[:start] *)
Received == SubSeq(content, 1, ocrStart)

(* the bytes on the worker's stdout that no Read has returned yet *)
Unread == SubSeq(hsOut, hsStart + nRead + 1, Len(hsOut))

(* ocr(): the two writes of the request, to which the worker writes its reply;
   content := make([]byte, 1024*10); start := 0 *)
OcrWrite ==
  /\ hsRes = "marker"
  /\ ocrPc = "idle"
  /\ nReq < MaxReq
  /\ nReq' = nReq + 1
  /\ hsOut' = hsOut \o Response(nReq + 1)
  /\ content' = make(ContentLen)
  /\ ocrStart' = 0
  /\ ocrPc' = "reading"
  /\ UNCHANGED <<ppocrVars, exePath, hsStart, hsRes, nRead, parseVars,
                 argsVars>>

(* one round of the loop: p.cmdStdout.Read(content[start:]) copies any number
   of the unread bytes, at least one and at most len(content) - start, to
   content[start:]; start += n; if start >= len(content) the buffer is
   extended; if content[start-1] == '\n' the call returns content[:start] *)
OcrReadLoop ==
  /\ ocrPc = "reading"
  /\ \E n \in 1..Min(Len(Unread), Len(content) - ocrStart) :
       LET filled == [i \in 1..Len(content) |->
                       IF i > ocrStart /\ i <= ocrStart + n THEN Unread[i - ocrStart]
                                                      ELSE content[i]]
           grown == IF ocrStart + n >= Len(content) THEN append(filled) ELSE filled
       IN /\ content' = grown
          /\ ocrStart' = ocrStart + n
          /\ nRead' = nRead + n
          /\ ocrPc' = IF grown[ocrStart + n] = "\n" THEN "idle" ELSE "reading"
  /\ UNCHANGED <<ppocrVars, exePath, hsOut, hsStart, hsRes, nReq, parseVars,
                 argsVars>>

InitExchange ==
  /\ InitPpocr
  /\ exePath = "file"
  /\ hsOut \in Banners
  /\ hsStart = 0
  /\ hsRes = "reading"
  /\ InitOcr
  /\ NoParse
  /\ NoArgs

SpecExchange == InitExchange /\ [][HsRead \/ OcrWrite \/ OcrReadLoop]_vars

(* -------------------------------------------------------- ParseResult *)
CodeSuccess == 100

(* longest data array considered *)
MaxItems == 2

(* a JSON value as json.Unmarshal hands it over in a map[string]any: t is its
   kind ("absent": the key is not in the map), n a number in tenths, elems the
   elements of an array *)
JAbsent == [t |-> "absent", n |-> 0, elems |-> <<>>]
JNull == [t |-> "null", n |-> 0, elems |-> <<>>]
JStr == [t |-> "str", n |-> 0, elems |-> <<>>]
JNum(tenths) == [t |-> "num", n |-> tenths, elems |-> <<>>]
JArr(es) == [t |-> "arr", n |-> 0, elems |-> es]

(* the elements of a data array: two objects that are items, an empty object,
   null, a string, an object whose score is a string *)
ElemKinds == {"itemA", "itemB", "empty", "null", "string", "badScore"}

(* json.Marshal(v), then json.Unmarshal(str, &r) with r of type Data: null and
   fields that are missing leave r at its zero value; a value of another type
   is an error *)
Decode(e) ==
  IF e \in {"string", "badScore"} THEN [err |-> "cannot unmarshal", item |-> "zero"]
  ELSE [err |-> "nil", item |-> IF e \in {"itemA", "itemB"} THEN e ELSE "zero"]

Numbers == {JNum(0), JNum(CodeSuccess * 10), JNum(CodeSuccess * 10 + 5),
            JNum(1010), JNum(2990)}

CodeValues == {JAbsent, JNull, JStr} \cup Numbers

DataValues ==
  {JAbsent, JNull, JStr, JNum(70)}
    \cup {JArr(es) : es \in SeqsUpTo(ElemKinds, MaxItems)}

(* rawData: bytes that are no JSON, the JSON null, a JSON value that is neither
   null nor an object, an object with or without code and data *)
RawResponses ==
  {[top |-> k, code |-> JAbsent, data |-> JAbsent] : k \in {"invalid", "null", "other"}}
    \cup {[top |-> "object", code |-> c, data |-> d] :
             c \in CodeValues, d \in DataValues}

(* json.Unmarshal(rawData, &resp) with resp a map[string]any: null leaves the
   map nil, which has no key *)
Unmarshal(raw) ==
  IF raw.top \in {"invalid", "other"} THEN [err |-> "json error", resp |-> raw]
  ELSE [err |-> "nil", resp |-> raw]

(* int(f) of a float64 given in tenths: the fraction is dropped *)
ToInt(tenths) == IF tenths >= 0 THEN tenths \div 10 ELSE -((-tenths) \div 10)

(* fmt.Sprintf("%v", v) *)
Sprint(v) ==
  CASE v.t \in {"absent", "null"} -> "<nil>"
    [] v.t = "str" -> "message"
    [] v.t = "num" -> ToString(ToInt(v.n)) \o "." \o ToString(v.n % 10)
    [] v.t = "arr" -> "[" \o ToString(Len(v.elems)) \o " elements]"

(* Result{} *)
ZeroResult == [Code |-> 0, Msg |-> "", Data |-> <<>>]

Return(res, e) == [panic |-> FALSE, err |-> e, result |-> res]
Panic == [panic |-> TRUE, err |-> "nil", result |-> ZeroResult]

(* the loop over data: the items decoded up to the first element that fails *)
RECURSIVE decodeAll(_, _)
decodeAll(es, resData) ==
  IF es = <<>> THEN [err |-> "nil", resData |-> resData]
  ELSE IF Decode(Head(es)).err # "nil"
         THEN [err |-> Decode(Head(es)).err, resData |-> resData]
         ELSE decodeAll(Tail(es), Append(resData, Decode(Head(es)).item))

(* otherCode with a fault: result.Code is not set *)
otherCodeNoCode(resp) ==
  Return([Code |-> 0, Msg |-> Sprint(resp.data), Data |-> <<>>], "nil")

(* the branch of a code that is not 100 *)
otherCode(resp) ==
  Return([Code |-> ToInt(resp.code.n), Msg |-> Sprint(resp.data), Data |-> <<>>], "nil")

(* the branch of code 100 *)
successCode(resp) ==
  LET res == [Code |-> CodeSuccess, Msg |-> "parse success", Data |-> <<>>]
      d == decodeAll(resp.data.elems, <<>>)
  IN  IF resp.data.t \in {"absent", "null"}
        THEN Return(ZeroResult, "no data in response")
        ELSE IF resp.data.t # "arr" THEN Return(res, "data is not array")
        ELSE IF d.err # "nil" THEN Return(res, d.err)
        ELSE Return([res EXCEPT !.Data = d.resData], "nil")

(* resp["code"].(float64) panics when the value is no JSON number *)
ParseResult(raw) ==
  LET u == Unmarshal(raw)
      resp == u.resp
  IN  IF u.err # "nil" THEN Return(ZeroResult, u.err)
      ELSE IF resp.code.t \in {"absent", "null"}
        THEN Return(ZeroResult, "no code in response")
      ELSE IF resp.code.t # "num" THEN Panic
      ELSE IF resp.code.n # CodeSuccess * 10 THEN otherCode(resp)
      ELSE successCode(resp)

Parse ==
  /\ parsed = <<>>
  /\ parsed' = <<ParseResult(rawData[1])>>
  /\ UNCHANGED <<ppocrVars, exePath, hsOut, hsStart, hsRes, ocrVars, rawData,
                 argsVars>>

InitParse ==
  /\ InitPpocr
  /\ exePath = "file"
  /\ hsOut = <<>> /\ hsStart = 0 /\ hsRes = "none"
  /\ InitOcr
  /\ rawData \in {<<r>> : r \in RawResponses}
  /\ parsed = <<>>
  /\ NoArgs

SpecParse == InitParse /\ [][Parse]_vars

(* -------------------------------------------------- OcrArgs.CmdString *)
(* longest ConfigPath considered, in characters *)
MaxPath == 2

(* a string is the sequence of its pieces: a name, "=", a number, a character *)
IsSpace(ch) == ch \in {" ", "\t", "\n"}

(* a pointer is <<>> when nil, else <<v>> for the value v it points to *)
BoolPtrs == {<<>>, <<TRUE>>, <<FALSE>>}
IntPtrs == {<<>>, <<0>>, <<960>>, <<-1>>}
Paths == SeqsUpTo({"p", " "}, MaxPath)

OcrArgs ==
  [Cls : BoolPtrs, EnableMkldnn : BoolPtrs, LimitSideLen : IntPtrs,
   UseAngleCls : BoolPtrs, ConfigPath : Paths]

(* the fields in the order of their declaration, each with its paddleocr tag *)
Fields ==
  << [name |-> "Cls", tag |-> "cls", kind |-> "boolPtr"],
     [name |-> "EnableMkldnn", tag |-> "enable_mkldnn", kind |-> "boolPtr"],
     [name |-> "LimitSideLen", tag |-> "limit_side_len", kind |-> "intPtr"],
     [name |-> "UseAngleCls", tag |-> "use_angle_cls", kind |-> "boolPtr"],
     [name |-> "ConfigPath", tag |-> "config_path", kind |-> "string"] >>

(* v.Field(i).IsZero(): a nil pointer, an empty string *)
IsZero(v) == v = <<>>

(* what one field adds to s: nothing when it is zero, else "tag=1 " or "tag=0 "
   for a *bool, "tag=%v " of the value pointed to for another pointer and of the
   value itself for the string *)
fieldString(f, v) ==
  IF IsZero(v) THEN <<>>
  ELSE IF f.kind = "boolPtr" THEN <<f.tag, "=", IF v[1] THEN "1" ELSE "0", " ">>
  ELSE IF f.kind = "intPtr" THEN <<f.tag, "=", ToString(v[1]), " ">>
  ELSE <<f.tag, "=">> \o v \o <<" ">>

(* strings.TrimSpace(s) *)
RECURSIVE TrimLeft(_)
TrimLeft(s) == IF s # <<>> /\ IsSpace(Head(s)) THEN TrimLeft(Tail(s)) ELSE s

RECURSIVE TrimRight(_)
TrimRight(s) ==
  IF s # <<>> /\ IsSpace(s[Len(s)]) THEN TrimRight(SubSeq(s, 1, Len(s) - 1)) ELSE s

TrimSpace(s) == TrimRight(TrimLeft(s))

(* the value of field f of o *)
FieldOf(o, f) ==
  CASE f.name = "Cls" -> o.Cls
    [] f.name = "EnableMkldnn" -> o.EnableMkldnn
    [] f.name = "LimitSideLen" -> o.LimitSideLen
    [] f.name = "UseAngleCls" -> o.UseAngleCls
    [] f.name = "ConfigPath" -> o.ConfigPath

(* s after the loop has run over the fields from the i-th on *)
RECURSIVE fieldsFrom(_, _, _)
fieldsFrom(o, i, s) ==
  IF i > Len(Fields) THEN s
  ELSE fieldsFrom(o, i + 1, s \o fieldString(Fields[i], FieldOf(o, Fields[i])))

(* CmdString with a fault: s is returned as the loop left it *)
CmdStringNoTrim(o) == fieldsFrom(o, 1, <<>>)

CmdString(o) == TrimSpace(fieldsFrom(o, 1, <<>>))

CallCmdString ==
  /\ cmdString = <<>>
  /\ cmdString' = <<CmdString(args[1])>>
  /\ UNCHANGED <<ppocrVars, exePath, hsOut, hsStart, hsRes, ocrVars, parseVars, args>>

InitArgs ==
  /\ InitPpocr
  /\ exePath = "file"
  /\ hsOut = <<>> /\ hsStart = 0 /\ hsRes = "none"
  /\ InitOcr
  /\ NoParse
  /\ args \in {<<o>> : o \in OcrArgs}
  /\ cmdString = <<>>

SpecArgs == InitArgs /\ [][CallCmdString]_vars

(* ------------------------------------------------------ specification *)
Next ==
  \/ NewStat \/ NewLock \/ NewInitSpawn \/ NewHandshake
  \/ NewCloseSelect \/ NewCloseBody \/ NewCloseRecv
  \/ TimerTick \/ TimerExit \/ TimerLock
  \/ TimerCloseSelect \/ TimerCloseBody \/ TimerCloseRecv
  \/ TimerInitSpawn \/ TimerHandshake \/ TimerStore
  \/ \E w \in CmdIds : WorkerExit(w) \/ WaiterStart(w) \/ WaiterWait(w) \/ WaiterSet(w)
  \/ \E c \in Callers :
       \/ OcrFileBegin(c) \/ OcrFileLock(c) \/ OcrFileCheck(c)
       \/ OcrBegin(c) \/ OcrLock(c)
       \/ OcrWriteJson(c) \/ OcrWriteNewline(c) \/ OcrRead(c)
       \/ CloseBegin(c) \/ CloseLock(c) \/ CloseSelect(c)
       \/ CloseCloseSelect(c) \/ CloseCloseBody(c) \/ CloseCloseRecv(c)

Spec == Init /\ [][Next]_vars

(* the same program, with the history of worker exits followed *)
InitCrash ==
  /\ InitPpocrWith("none")
  /\ exePath \in PathKinds
  /\ hsOut = <<>> /\ hsStart = 0 /\ hsRes = "none"
  /\ InitOcr
  /\ NoParse
  /\ NoArgs

SpecCrash == InitCrash /\ [][Next]_vars

(* the steps of the goroutines of the program: all but the start of a call,
   which is up to the user, and the exit of a worker, which is up to the worker *)
NewStep ==
  \/ NewStat \/ NewLock \/ NewInitSpawn \/ NewHandshake
  \/ NewCloseSelect \/ NewCloseBody \/ NewCloseRecv

TimerStep ==
  \/ TimerTick \/ TimerExit \/ TimerLock
  \/ TimerCloseSelect \/ TimerCloseBody \/ TimerCloseRecv
  \/ TimerInitSpawn \/ TimerHandshake \/ TimerStore

WaiterStep == \E w \in CmdIds : WaiterStart(w) \/ WaiterWait(w) \/ WaiterSet(w)

CallerStep(c) ==
  \/ OcrFileLock(c) \/ OcrFileCheck(c) \/ OcrLock(c)
  \/ OcrWriteJson(c) \/ OcrWriteNewline(c) \/ OcrRead(c)
  \/ CloseLock(c) \/ CloseSelect(c)
  \/ CloseCloseSelect(c) \/ CloseCloseBody(c) \/ CloseCloseRecv(c)

(* a goroutine that can run does run, and the ticker fires *)
Fairness ==
  /\ WF_vars(NewStep)
  /\ WF_vars(TimerStep)
  /\ WF_vars(WaiterStep)
  /\ \A c \in Callers : WF_vars(CallerStep(c))

SpecFair == Spec /\ Fairness

(* ============================================================ claims *)
(* no exit-waiter goroutine is left that could still send its exit event *)
NoExitEventToCome == \A w \in CmdIds : waiter[w] \in {"none", "done"}

(* C1: at most one call at a time is inside ocr(), and it holds ppLock, so the
   bytes of two requests never interleave on the worker's stdin. *)
C1_OneCallInsideOcr ==
  \A c \in Callers :
    pc[c] \in InOcr =>
      /\ ppLock = CallerTask(c)
      /\ \A d \in Callers : pc[d] \in InOcr => d = c

(* one call is between its two writes while another call waits for the lock *)
C1_Witness ==
  \E c, d \in Callers : c # d /\ pc[c] = "w2" /\ pc[d] \in {"f_lock", "o_lock"}

(* C2 (as claimed): a call that got the lock while a sticky error was recorded
   never enters ocr(), that is, it writes nothing and reads nothing. *)
C2_StickyErrorMeansNoIO ==
  \A c \in Callers : errAtLock[c] => pc[c] \notin InOcr

(* C3 (as claimed): a request that waited for the lock during a restart does its
   exchange only if the latest restart's init succeeded, and then on the streams
   of the Cmd that restart created. *)
C3_QueuedRequestServedByNewWorker ==
  \A c \in Callers :
    (queued[c] /\ pc[c] \in InOcr) =>
      /\ lastInit = "ok"
      /\ cmdStdin = nCmd /\ cmdStdout = nCmd

(* C4: while restartTimer is between the start of close() and the end of
   initPpocr it holds ppLock, no call is past its Lock() and NewPpocr is not
   running its own init. *)
C4_RestartCycleExclusive ==
  InCycle =>
    /\ ppLock = TimerTask
    /\ npc = "ok"
    /\ \A c \in Callers : pc[c] \in {"idle"} \cup LockWait

(* a restart is in its handshake while a request waits for the lock *)
C4_Witness ==
  tpc = "handshake" /\ \E c \in Callers : pc[c] \in {"f_lock", "o_lock"}

(* C5 (as claimed): once Close has returned on a successfully created Ppocr, a
   sticky error is recorded in every later state. *)
C5_StickyErrorAfterClose ==
  (Created /\ closeReturned) => internalErr # "nil"

(* C6: the shutdown channel is closed at most once; when the first Close has
   returned the channel is closed and no worker process runs; a Close that finds
   the channel closed returns the error "OCR process has been closed" in that
   step and changes neither the channel, nor a process, nor a waiter, nor the
   handle, nor the sticky error. *)
C6_SecondCloseOnlyFails ==
  /\ [](chanCloses <= 1)
  /\ []((Created /\ closeReturned) =>
          (restartExitChan = "closed" /\ \A w \in CmdIds : proc[w] # "running"))
  /\ [][\A c \in Callers :
          (pc[c] = "c_select" /\ pc'[c] # "c_select" /\ restartExitChan = "closed") =>
            /\ result'[c] = ErrClosed
            /\ pc'[c] = "idle"
            /\ UNCHANGED <<restartExitChan, histVars, proc, waiter, handle,
                           internalErr>>]_vars

(* a later Close is at its select after the first Close has returned *)
C6_Witness ==
  Created /\ closeReturned /\ \E c \in Callers : pc[c] = "c_select"

(* C7 (as claimed): after Close has returned, restartTimer never is inside a
   restart cycle. *)
C7_NoRestartCycleAfterClose ==
  (Created /\ closeReturned) => ~InCycle

(* C8 (as claimed): a call made after Close has returned never is blocked for
   good: it never waits for the lock while the lock's holder waits for an exit
   event that no goroutine is left to send. *)
C8_CallAfterCloseNeverBlocked ==
  \A c \in Callers :
    (Created /\ afterClose[c]) =>
      ~(pc[c] \in LockWait /\ ppLock = TimerTask /\ tpc = "close_recv"
        /\ NoExitEventToCome)

(* C9 (as claimed): from a failed restart until the next restart cycle or Close,
   the sticky error stays recorded. *)
C9_InitFailureStaysRecorded ==
  (lastInit = "failed" /\ restartExitChan = "open" /\ ~InCycle) => internalErr # "nil"

(* C10 (as claimed): a Close called after a failed restart never is blocked for
   good in close(), waiting for an exit event that no goroutine is left to send. *)
C10_FaultedCloseReturns ==
  (Created /\ lastInit = "failed") =>
    \A c \in Callers : ~(pc[c] = "c_recv" /\ NoExitEventToCome)

(* C11: after a restart whose initPpocr returned nil, while the new worker runs
   and neither Close nor the next restart cycle has begun, internalErr is nil and
   the handle's streams are those of the Cmd that restart created, so an OcrFile
   at its check goes on to the exchange with the new worker. *)
C11_SuccessfulRestartClearsError ==
  (lastInit = "ok" /\ tpc \in {"select", "lock"} /\ restartExitChan = "open"
     /\ proc[cmd] = "running") =>
    /\ internalErr = "nil"
    /\ cmd = nCmd /\ cmdStdin = cmd /\ cmdStdout = cmd

(* a call has returned the error of a failed init, the latest restart succeeded,
   and an OcrFile holds the lock at its check with the new worker running *)
C11_Witness ==
  /\ lastInit = "ok" /\ tpc \in {"select", "lock"}
  /\ restartExitChan = "open" /\ proc[cmd] = "running"
  /\ \E c, d \in Callers : pc[c] = "f_check" /\ result[d] = ErrInit

(* C12 (as claimed): when StdinPipe, StdoutPipe or cmd.Start failed in NewPpocr,
   NewPpocr is never blocked for good in close() waiting for an exit event that no
   goroutine is left to send, and no restart timer has been started. *)
C12_SpawnFailureReturns ==
  (nCmd >= 1 /\ proc[1] = "unstarted") =>
    /\ ~(npc = "close_recv" /\ NoExitEventToCome)
    /\ tpc = "none"

(* C13: NewPpocr with an exePath that names nothing, is empty or names a directory
   never gets past its first test: once it has run it has returned nil and the
   error, no Cmd was created, no process and no exit-waiter exist, no restart
   timer runs and the mutex was never taken. *)
C13_BadPathSpawnsNothing ==
  (exePath # "file") =>
    /\ npc \in {"stat", "noexe"}
    /\ nCmd = 0 /\ cmd = 0
    /\ \A w \in CmdIds : proc[w] = "unborn" /\ waiter[w] = "none"
    /\ tpc = "none"
    /\ ppLock = NoOne

C13_Witness == exePath = "dir" /\ npc = "noexe"

(* C14 (as claimed): the step that releases the lock after an initPpocr whose
   read loop ended without the marker leaves the worker that initPpocr launched
   dead and reaped, with its exit-waiter goroutine finished. *)
C14_FailedHandshakeKillsWorker ==
  [][(hsOutcome \in {"eof", "tooLong"} /\ ppLock # NoOne /\ ppLock' = NoOne) =>
       (proc'[cmd] = "reaped" /\ waiter'[cmd] = "done")]_vars

(* C15 (as claimed): when the read loop of initPpocr has ended, it has ended with
   the marker seen exactly if the marker is contained in the first BufLen bytes of
   the worker's output, however the output was split across the reads. *)
C15_HandshakeOutcomeByBytesOnly ==
  (hsRes \in {"marker", "eof", "tooLong"}) =>
    (hsRes = "marker" <=> Contains(Prefix(hsOut, BufLen), ReadyMarker))

(* C16 (as claimed): a call of ocr() that has returned without error has returned
   exactly the line the worker wrote in reply to that call's request. *)
C16_ReplyBelongsToRequest ==
  (ocrPc = "idle" /\ nReq >= 1) => Received = Response(nReq)

(* a response that is an object whose code is a whole number *)
WholeCode(raw) == raw.top = "object" /\ raw.code.t = "num" /\ raw.code.n % 10 = 0

(* C17: ParseResult of a response whose code is a whole number other than 100
   returns no error, and its Result has that code, the data field rendered as
   the message, and no items. *)
C17_OtherCodeIsNoError ==
  (parsed # <<>> /\ WholeCode(rawData[1]) /\ rawData[1].code.n # CodeSuccess * 10) =>
    /\ ~parsed[1].panic
    /\ parsed[1].err = "nil"
    /\ parsed[1].result.Code * 10 = rawData[1].code.n
    /\ parsed[1].result.Msg = Sprint(rawData[1].data)
    /\ parsed[1].result.Data = <<>>

C17_Witness ==
  /\ parsed # <<>>
  /\ rawData[1].top = "object" /\ rawData[1].code = JNum(1010)
  /\ rawData[1].data = JStr
  /\ parsed[1].result.Code = 101

(* every element of a data array decodes into an item *)
AllDecode(es) == \A i \in 1..Len(es) : Decode(es[i]).err = "nil"

(* C18 (as claimed): ParseResult returns an error when the response is no JSON
   object, has no code that is a number, or has code 100 with data that is absent,
   no array or an array with an element that does not decode; for code 100 and an
   array of items it returns nil, code 100 and one item per element, in order. *)
C18_MalformedResponseIsAnError ==
  parsed # <<>> =>
    LET raw == rawData[1]
        res == parsed[1]
        isSuccess == raw.top = "object" /\ raw.code = JNum(CodeSuccess * 10)
    IN  /\ (raw.top # "object" \/ raw.code.t # "num") =>
              (~res.panic /\ res.err # "nil")
        /\ (isSuccess /\ ~(raw.data.t = "arr" /\ AllDecode(raw.data.elems))) =>
              (~res.panic /\ res.err # "nil")
        /\ (isSuccess /\ raw.data.t = "arr" /\ AllDecode(raw.data.elems)) =>
              /\ ~res.panic /\ res.err = "nil"
              /\ res.result.Code = CodeSuccess
              /\ Len(res.result.Data) = Len(raw.data.elems)
              /\ \A i \in 1..Len(raw.data.elems) :
                   res.result.Data[i] = Decode(raw.data.elems[i]).item

(* name=value of the i-th field of o as the claim words it: 1 or 0 for a
   boolean, the decimal digits for an integer, the string itself *)
Rendered(o, i) ==
  LET f == Fields[i]
      v == FieldOf(o, f)
  IN  <<f.tag, "=">> \o
        (IF f.kind = "boolPtr" THEN <<IF v = <<TRUE>> THEN "1" ELSE "0">>
         ELSE IF f.kind = "intPtr" THEN <<ToString(v[1])>>
         ELSE v)

(* the fields of o that are set, in the order of their declaration *)
SetFields(o) == {i \in 1..Len(Fields) : FieldOf(o, Fields[i]) # <<>>}

(* the set fields from the i-th on, one space between two of them *)
RECURSIVE Joined(_, _)
Joined(o, i) ==
  IF i > Len(Fields) THEN <<>>
  ELSE IF i \notin SetFields(o) THEN Joined(o, i + 1)
  ELSE IF \E j \in SetFields(o) : j > i
         THEN Rendered(o, i) \o <<" ">> \o Joined(o, i + 1)
         ELSE Rendered(o, i)

NoOuterSpace(s) == s = <<>> \/ (~IsSpace(s[1]) /\ ~IsSpace(s[Len(s)]))

(* C19 (as claimed): for every OcrArgs value, CmdString returns the set fields as
   name=value in declaration order with one space between two of them, without
   leading or trailing whitespace, and the empty string when no field is set. *)
C19_CmdStringForEveryArgs ==
  cmdString # <<>> =>
    /\ cmdString[1] = Joined(args[1], 1)
    /\ NoOuterSpace(cmdString[1])

(* the last character of ConfigPath, if any, is no whitespace *)
PathEndsClean(o) ==
  o.ConfigPath = <<>> \/ ~IsSpace(o.ConfigPath[Len(o.ConfigPath)])

(* C19 (amended): the same, for every OcrArgs value whose ConfigPath does not end
   in whitespace. *)
C19_CmdStringForCleanPath ==
  (cmdString # <<>> /\ PathEndsClean(args[1])) =>
    /\ cmdString[1] = Joined(args[1], 1)
    /\ NoOuterSpace(cmdString[1])
    /\ SetFields(args[1]) = {} => cmdString[1] = <<>>

C19_Witness ==
  /\ cmdString # <<>>
  /\ args[1].Cls = <<FALSE>> /\ args[1].EnableMkldnn = <<>>
  /\ args[1].LimitSideLen = <<0>> /\ args[1].UseAngleCls = <<TRUE>>
  /\ args[1].ConfigPath = <<" ", "p">>
  /\ cmdString[1] = <<"cls", "=", "0", " ", "limit_side_len", "=", "0", " ",
                       "use_angle_cls", "=", "1", " ", "config_path", "=", " ", "p">>

(* a step in which a call of close() returns *)
CloseReturns ==
  \/ npc \in {"close", "close_recv"} /\ npc' = "err"
  \/ tpc \in {"close", "close_recv"} /\ tpc' = "init"
  \/ \E c \in Callers : pc[c] \in {"c_close", "c_recv"} /\ pc'[c] = "idle"

(* a call of close() is past its select, at the deferred receive *)
InCloseReceive ==
  npc = "close_recv" \/ tpc = "close_recv" \/ \E c \in Callers : pc[c] = "c_recv"

(* when close() returns, the process of p.cmd does not run and no exit-waiter
   goroutine is alive, blocked on its send or before it: the part of C20 that
   the code keeps *)
ReturnedCloseLeavesNoWaiter ==
  [][CloseReturns =>
       /\ \A w \in CmdIds : waiter'[w] \in {"none", "done"}
       /\ proc'[cmd] # "running"]_vars

(* C20 (as claimed): a close() whose kill panicked, which Process.Kill does on a
   Cmd that never started, returns the panic as its error: it never is at its
   deferred receive with no exit-waiter left to send the exit event. *)
C20_PanickedCloseReturns ==
  ~(InCloseReceive /\ cmd # 0 /\ proc[cmd] = "unstarted" /\ NoExitEventToCome)

(* a waiter finishes only through its send and stays finished; the send of an
   exit event is taken by a close() that is at its select or at its deferred
   receive, one event per step *)
ExitEventOnceToOneClose ==
  [][/\ \A w \in CmdIds : waiter[w] = "done" => waiter'[w] = "done"
     /\ \A w \in CmdIds :
          (waiter[w] # "done" /\ waiter'[w] = "done") => waiter[w] = "send"
     /\ \A w \in CmdIds :
          (waiter[w] = "send" /\ waiter'[w] # "send") =>
            /\ waiter'[w] = "done"
            /\ \/ npc \in {"close", "close_recv"}
               \/ tpc \in {"close", "close_recv"}
               \/ \E c \in Callers : pc[c] \in {"c_close", "c_recv"}
            /\ \A v \in CmdIds \ {w} : waiter'[v] = waiter[v]]_vars

(* while a tick is still to come, an exit-waiter that is blocked on its send gets
   its event received *)
ExitEventConsumed ==
  \A w \in CmdIds : (waiter[w] = "send" /\ ticks < MaxTicks) ~> (waiter[w] = "done")

(* C21: every exit-waiter sends its exit event once, one close() receives it, and
   with goroutines that run when they can no waiter stays blocked on its send. *)
C21_ExitEventDeliveredAndConsumed == ExitEventOnceToOneClose /\ ExitEventConsumed

(* the second worker has exited on its own and its waiter is blocked on the send,
   with a tick still to come *)
C21_Witness ==
  /\ waiter[2] = "send" /\ proc[2] \in {"exited0", "exitedErr"}
  /\ waiter[1] = "done" /\ ticks < MaxTicks

(* the process of Cmd w exists and its exit has not been received by a close() *)
Unreaped(w) == proc[w] \in {"running", "killed", "exited0", "exitedErr"}

(* C22: at most one worker process is alive at any time, and when initPpocr is
   about to launch a worker, every worker launched before has exited and its exit
   event has been received. *)
C22_OneWorkerAlive ==
  /\ \A w, v \in CmdIds : (Unreaped(w) /\ Unreaped(v)) => w = v
  /\ (npc = "init" \/ tpc = "init") =>
       \A w \in CmdIds : ~Unreaped(w) /\ waiter[w] \in {"none", "done"}

(* the third worker runs after two restarts of which the first one failed: a call
   has returned the error of a failed init, and both earlier workers are reaped *)
C22_Witness ==
  /\ proc[1] = "reaped" /\ proc[2] = "reaped" /\ proc[3] = "running"
  /\ \E d \in Callers : result[d] = ErrInit

(* a step of an exit-waiter goroutine before its send *)
WaiterActs ==
  \E w \in CmdIds : waiter[w] \in {"start", "wait", "set"} /\ waiter'[w] # waiter[w]

(* a step in which caller c begins Ocr, which starts with its test of p.internalErr *)
OcrTestsError(c) ==
  /\ pc[c] = "idle" /\ calls' = calls + 1
  /\ pc'[c] = "o_lock" \/ pc' = pc

(* C23 (as claimed): internalErr and the handle change only in steps of the task
   that holds ppLock, never in a step of an exit-waiter, and Ocr's test of
   internalErr is made by a caller that holds ppLock. *)
C23_HandleAndErrorUnderLock ==
  [][/\ (internalErr' # internalErr \/ handle' # handle) =>
          (ppLock # NoOne /\ ~WaiterActs)
     /\ \A c \in Callers : OcrTestsError(c) => ppLock = CallerTask(c)]_vars

(* the handshake has read every byte the worker wrote while it started: the
   first unread byte, if there is one, belongs to a reply *)
NoBannerLeft == hsStart >= Len(hsOut) \/ hsOut[hsStart + 1] # "\n"

(* C24: when nothing but the reply lines is on the worker's stdout, ocr()
   returns the whole line of its request, trailing newline included, however
   the line is split into reads and whether or not it fits the first buffer;
   and while the loop runs, what it has read is a proper prefix of that line *)
C24_ReadLoopReturnsWholeLine ==
  (NoBannerLeft /\ nReq >= 1) =>
    /\ ocrPc = "idle" => Received = Response(nReq)
    /\ ocrPc = "reading" =>
         /\ ocrStart < Len(Response(nReq))
         /\ Received = SubSeq(Response(nReq), 1, ocrStart)

(* the first request has returned a line longer than the first buffer *)
C24_Witness ==
  /\ NoBannerLeft
  /\ ocrPc = "idle"
  /\ nReq = 1
  /\ Len(Response(1)) > ContentLen
  /\ Len(content) = 2 * ContentLen
  /\ Received = Response(1)

(* a step in which the exchange of caller c ends with a write or read error *)
ExchangeFails(c) ==
  /\ pc[c] \in {"w1", "w2", "read"}
  /\ pc'[c] = "idle"
  /\ result'[c] = ErrIO

(* C25: the step in which an exchange fails hands the error to its caller and
   releases the lock; it changes neither the error of the Ppocr nor the worker
   handle, ends no worker and launches none, and moves neither restartTimer nor
   the exit channel *)
C25_ExchangeFailureIsLocal ==
  [][\A c \in Callers : ExchangeFails(c) =>
       /\ ppLock = CallerTask(c)
       /\ ppLock' = NoOne
       /\ internalErr' = internalErr
       /\ handle' = handle
       /\ proc' = proc
       /\ waiter' = waiter
       /\ restartExitChan' = restartExitChan
       /\ tpc' = tpc
       /\ ticks' = ticks
       /\ \A d \in Callers \ {c} : pc'[d] = pc[d] /\ result'[d] = result[d]]_vars

(* a failed exchange has returned while the Ppocr holds no error, its worker
   handle still being the one of the worker that has gone *)
C25_Witness ==
  \E c \in Callers :
    /\ pc[c] = "idle"
    /\ result[c] = ErrIO
    /\ internalErr = "nil"
    /\ ppLock = NoOne
    /\ cmd # 0
    /\ proc[cmd] \in {"exited0", "exitedErr", "reaped"}

(* caller c has written its request to a worker that runs and has not replied *)
AwaitsReply(c) == pc[c] = "read" /\ StreamAlive(cmdStdout)

(* a call leaves the read loop only with the reply of a running worker or with
   the error of a closed stream: no other event ends the wait *)
ReadEndsByReplyOrEOF ==
  \A c \in Callers :
    (pc[c] = "read" /\ pc'[c] # "read") =>
      \/ StreamAlive(cmdStdout) /\ result'[c] = "ok"
      \/ ~StreamAlive(cmdStdout) /\ result'[c] = ErrIO

(* while c goes on waiting it holds the lock, and no other call, no restart and
   no Close gets past its p.ppLock.Lock() or returns *)
OthersBlockOnReader ==
  \A c \in Callers :
    (AwaitsReply(c) /\ pc'[c] = "read") =>
      /\ ppLock = CallerTask(c) /\ ppLock' = CallerTask(c)
      /\ tpc' \in {"select", "lock", "exited"}
      /\ \A d \in Callers \ {c} :
           /\ pc'[d] \in {"idle"} \cup LockWait
           /\ result'[d] \in {result[d], "none"}

(* C26: an exchange ends only by a reply or a closed stream, and while it
   waits for either, every later request, every restart tick and Close is held
   at the lock *)
C26_HungExchangeBlocksAll == [][ReadEndsByReplyOrEOF /\ OthersBlockOnReader]_vars

(* C27 (as claimed): Close on the Ppocr that NewPpocr returned with the error of
   a failed handshake returns: it never is at the deferred receive of close()
   with no exit-waiter left to send the exit event that the close() of
   NewPpocr has taken. *)
C27_CloseAfterFailedNewReturns ==
  ~(/\ npc = "err"
    /\ NoExitEventToCome
    /\ \E c \in Callers : pc[c] = "c_recv" /\ ppLock = CallerTask(c))

(* the exit-waiter of a worker that exited with an error between requests sets
   that error *)
CrashIsRecorded ==
  \A w \in CmdIds :
    (crash = "exited" /\ proc[w] = "exitedErr" /\ waiter[w] = "set"
       /\ waiter'[w] = "send") =>
      internalErr' = ErrExit /\ crash' = "recorded"

(* an OcrFile call that tests the error after such an exit was recorded, with
   no successful restart since, returns at once: it does not go on to ocr() *)
CrashStopsOcrFile ==
  \A c \in Callers :
    (crash = "recorded" /\ pc[c] = "f_check" /\ pc'[c] # "f_check") =>
      /\ pc'[c] = "idle"
      /\ result'[c] \notin {"ok", "none"}

(* C28 (as claimed, with the error that is returned left open, since it can by
   then be that of a failed restart or of Close): once the exit-waiter has
   recorded the error of a worker that crashed between requests, and until a
   restart has succeeded, every OcrFile call returns an error without writing to
   or reading from the worker. *)
C28_CrashErrorStopsOcrFile == [][CrashIsRecorded /\ CrashStopsOcrFile]_vars

====
